---------------------------- MODULE Spec2Model ----------------------------
(***************************************************************************)
(* Delivery scheduler (dynamic-delivery): the relational rows the app      *)
(* keeps (delivery zones, delivery slots, blackout dates, orders), the     *)
(* admin route actions, the storefront delivery-scheduler API and the     *)
(* Shopify webhooks that read and write them.                              *)
(*                                                                         *)
(* Conventions of the model.                                               *)
(*  - A table is a set of rows; a row is a record with the columns the     *)
(*    code reads.  Row ids are fresh strings ("s1", "s2", ...), drawn from *)
(*    a per-table counter, as cuid() never hands out an id twice.          *)
(*  - A time of day is the "HH:MM" string of an <input type="time">; the   *)
(*    code compares these strings, and on zero-padded HH:MM strings that   *)
(*    order is the order of the times, so a time is a tick 0..MaxTime.     *)
(*  - A date is a calendar day, numbered from the first day of the first   *)
(*    modelled year; a year has DaysPerYear days, so that the (month, day) *)
(*    of a date, which Date.getMonth()/getDate() give, is MonthDay(d).     *)
(*  - The database rejects a write that breaks a unique index or a foreign *)
(*    key of migration.sql; the call then throws and writes nothing.       *)
(*  - A webhook handler runs in steps, one per database round trip that    *)
(*    matters (the availability check, the insert); steps of different     *)
(*    requests interleave.                                                 *)
(***************************************************************************)
EXTENDS Integers, FiniteSets, Sequences, TLC

(***************************************************************************)
(* Bounds of the model.                                                    *)
(***************************************************************************)
MaxTime == 3
MaxZones == 2
MaxSlots == 2
MaxBlackouts == 2
MaxOrders == 2
MaxCapacity == 2
NumYears == 2
DaysPerYear == 2
NumProcs == 2

VARIABLES
    zones,      \* delivery_zones rows
    slots,      \* delivery_slots rows
    blackouts,  \* blackout_dates rows
    orders,     \* orders rows
    nextId,     \* per table, the number of the next fresh row id
    hooks,      \* per webhook worker, the request it is processing
    resp,       \* the response of the last finished route or service call
    emails,     \* per Shopify order, the emails handed to the mail transport
    shopifyOrders   \* per Shopify order, what updateShopifyOrder did to it

dbVars == <<zones, slots, blackouts, orders, nextId>>
fxVars == <<emails, shopifyOrders>>
vars == <<zones, slots, blackouts, orders, nextId, hooks, resp, emails, shopifyOrders>>

(***************************************************************************)
(* Values.                                                                 *)
(***************************************************************************)
NULL == "NULL"
Shops == {"shop-a"}
Times == 0..MaxTime
Dates == 0..(NumYears * DaysPerYear - 1)
MonthDay(d) == d % DaysPerYear
Procs == 1..NumProcs

ZoneId(n) == "z" \o ToString(n)
SlotId(n) == "s" \o ToString(n)
BlackoutId(n) == "b" \o ToString(n)
OrderRowId(n) == "o" \o ToString(n)
ShopifyOrderId(n) == "#" \o ToString(n)

ZoneIds == {ZoneId(n) : n \in 1..MaxZones}
SlotIds == {SlotId(n) : n \in 1..MaxSlots}
BlackoutIds == {BlackoutId(n) : n \in 1..MaxBlackouts}
ShopifyOrderIds == {ShopifyOrderId(n) : n \in 1..MaxOrders}

\* A webhook worker with no request in hand.
IdleHook == [pc |-> "idle"]

\* The row counters of an empty database.
InitCounters == [zone |-> 1, slot |-> 1, blackout |-> 1, order |-> 1]

Zone(n, shop, name, active) ==
    [id |-> ZoneId(n), shopName |-> shop, name |-> name, isActive |-> active]

Slot(n, shop, zoneId, startTime, endTime, capacity, active) ==
    [id |-> SlotId(n), shopName |-> shop, zoneId |-> zoneId, startTime |-> startTime,
     endTime |-> endTime, capacity |-> capacity, currentOrders |-> 0,
     isActive |-> active]

\* json(body, {status}): what a route answers.  error is the body's error
\* field ("none" when the body has none).
Response(op, status, error) == [op |-> op, status |-> status, error |-> error]
NoResponse == Response("none", 0, "none")

\* No email was handed to the mail transport for any order yet: confirmation
\* is "none", "sent" or "failed"; cancellation counts the cancellation emails.
NoEmails == [id \in ShopifyOrderIds |-> [confirmation |-> "none", cancellation |-> 0]]

\* updateShopifyOrder has run for no order yet.
NoUpdates == [id \in ShopifyOrderIds |-> "untouched"]

\* What a service or database call gives back: the table after the call and
\* the message of the error it threw ("none" when it returned).
Returned(rows) == [rows |-> rows, error |-> "none"]
Thrown(rows, message) == [rows |-> rows, error |-> message]

(***************************************************************************)
(* delivery_slots: the table's constraints and the slot service.           *)
(***************************************************************************)
\* UNIQUE INDEX delivery_slots_shopName_zoneId_startTime_endTime_key
SlotKeyTaken(row) ==
    \E s \in slots :
        /\ s.id # row.id
        /\ s.shopName = row.shopName /\ s.zoneId = row.zoneId
        /\ s.startTime = row.startTime /\ s.endTime = row.endTime

\* FOREIGN KEY delivery_slots.zoneId -> delivery_zones.id
SlotZoneExists(row) == \E z \in zones : z.id = row.zoneId

\* db.deliverySlot.create
deliverySlot_create(row) ==
    IF SlotKeyTaken(row) THEN Thrown(slots, "Unique constraint failed")
    ELSE IF ~SlotZoneExists(row) THEN Thrown(slots, "Foreign key constraint failed")
    ELSE Returned(slots \cup {row})

\* db.deliverySlot.update({where: {id}, data})
deliverySlot_update(id, data) ==
    LET old == {s \in slots : s.id = id}
        new(s) == [s EXCEPT !.startTime = data.startTime, !.endTime = data.endTime,
                            !.capacity = data.capacity, !.zoneId = data.zoneId]
    IN  IF old = {} THEN Thrown(slots, "Record to update not found")
        ELSE LET s == CHOOSE s \in old : TRUE
             IN  IF SlotKeyTaken(new(s)) THEN Thrown(slots, "Unique constraint failed")
                 ELSE IF ~SlotZoneExists(new(s))
                      THEN Thrown(slots, "Foreign key constraint failed")
                 ELSE Returned((slots \ old) \cup {new(s)})

\* The OR of the three range conditions createDeliverySlot hands to findMany.
OverlapWhereDroppedContained(s, data) ==
    \/ s.startTime <= data.startTime /\ s.endTime > data.startTime
    \/ s.startTime < data.endTime /\ s.endTime >= data.endTime

OverlapWhere(s, data) ==
    \/ s.startTime <= data.startTime /\ s.endTime > data.startTime
    \/ s.startTime < data.endTime /\ s.endTime >= data.endTime
    \/ s.startTime >= data.startTime /\ s.endTime <= data.endTime

\* DeliveryService.createDeliverySlot
createDeliverySlot(data, id) ==
    LET zone == {z \in zones : z.id = data.zoneId /\ z.shopName = data.shopName
                               /\ z.isActive}
        existingSlots == {s \in slots : /\ s.shopName = data.shopName
                                        /\ s.zoneId = data.zoneId
                                        /\ s.isActive
                                        /\ OverlapWhere(s, data)}
    IN  IF zone = {} THEN Thrown(slots, "Invalid delivery zone for this shop")
        ELSE IF existingSlots # {}
             THEN Thrown(slots, "Time slot overlaps with existing slot")
        ELSE deliverySlot_create(
                 [id |-> id, shopName |-> data.shopName, zoneId |-> data.zoneId,
                  startTime |-> data.startTime, endTime |-> data.endTime,
                  capacity |-> data.capacity, currentOrders |-> 0, isActive |-> TRUE])

\* The catch block of a route action: json({error: message}, {status: 500}).
Caught(op, result) ==
    IF result.error = "none" THEN Response(op, 200, "none")
    ELSE Response(op, 500, result.error)

\* The form validation the time-slots action runs before create and update;
\* "none" when the form passes.
timeSlots_validate(startTime, endTime, capacity) ==
    IF capacity = 0 THEN "All fields are required"
    ELSE IF endTime <= startTime THEN "End time must be after start time"
    ELSE IF capacity <= 0 THEN "Capacity must be greater than 0"
    ELSE "none"

\* app.time-slots action, actionType = create
timeSlots_create(shop, startTime, endTime, capacity, zoneId) ==
    LET invalid == timeSlots_validate(startTime, endTime, capacity)
        data == [shopName |-> shop, startTime |-> startTime, endTime |-> endTime,
                 capacity |-> capacity, zoneId |-> zoneId]
        result == createDeliverySlot(data, SlotId(nextId.slot))
    IN  IF invalid # "none"
        THEN /\ resp' = Response("timeSlots.create", 400, invalid)
             /\ UNCHANGED <<dbVars, hooks, fxVars>>
        ELSE /\ result.error = "none" => nextId.slot <= MaxSlots
             /\ slots' = result.rows
             /\ nextId' = IF result.error = "none"
                          THEN [nextId EXCEPT !.slot = @ + 1] ELSE nextId
             /\ resp' = Caught("timeSlots.create", result)
             /\ UNCHANGED <<zones, blackouts, orders, hooks, fxVars>>

\* app.time-slots action, actionType = update (with a slotId)
timeSlots_update(slotId, startTime, endTime, capacity, zoneId) ==
    LET invalid == timeSlots_validate(startTime, endTime, capacity)
        result == deliverySlot_update(slotId,
                      [startTime |-> startTime, endTime |-> endTime,
                       capacity |-> capacity, zoneId |-> zoneId])
    IN  IF invalid # "none"
        THEN /\ resp' = Response("timeSlots.update", 400, invalid)
             /\ UNCHANGED <<dbVars, hooks, fxVars>>
        ELSE /\ slots' = result.rows
             /\ resp' = Caught("timeSlots.update", result)
             /\ UNCHANGED <<zones, blackouts, orders, nextId, hooks, fxVars>>

\* app.time-slots action, actionType = toggle
timeSlots_toggle(slotId) ==
    LET currentSlot == {s \in slots : s.id = slotId}
    IN  IF currentSlot = {}
        THEN /\ resp' = Response("timeSlots.toggle", 404, "Slot not found")
             /\ UNCHANGED <<dbVars, hooks, fxVars>>
        ELSE /\ slots' = (slots \ currentSlot)
                         \cup {[s EXCEPT !.isActive = ~s.isActive] : s \in currentSlot}
             /\ resp' = Response("timeSlots.toggle", 200, "none")
             /\ UNCHANGED <<zones, blackouts, orders, nextId, hooks, fxVars>>

\* db.deliverySlot.delete; orders.deliverySlotId is ON DELETE RESTRICT
deliverySlot_delete(id) ==
    IF ~\E s \in slots : s.id = id THEN Thrown(slots, "Record to delete does not exist")
    ELSE IF \E o \in orders : o.deliverySlotId = id
         THEN Thrown(slots, "Foreign key constraint failed")
    ELSE Returned({s \in slots : s.id # id})

\* app.time-slots action, actionType = delete
timeSlots_delete(slotId) ==
    LET orderCount == Cardinality({o \in orders : /\ o.deliverySlotId = slotId
                                                  /\ o.status # "CANCELLED"})
        result == deliverySlot_delete(slotId)
    IN  IF orderCount > 0
        THEN /\ resp' = Response("timeSlots.delete", 400,
                                 "Cannot delete slot with active orders")
             /\ UNCHANGED <<dbVars, hooks, fxVars>>
        ELSE /\ slots' = result.rows
             /\ resp' = Caught("timeSlots.delete", result)
             /\ UNCHANGED <<zones, blackouts, orders, nextId, hooks, fxVars>>

(***************************************************************************)
(* delivery_zones: the table's constraints and ShopService.                *)
(***************************************************************************)
\* The zone names a merchant types: two country codes, one of them also with
\* a leading blank, and the empty field.
ZoneNames == {"US", " US", "BD", ""}

\* String.prototype.trim on the names above.
Trim(name) == IF name = " US" THEN "US" ELSE name

\* UNIQUE INDEX delivery_zones_shopName_name_key
ZoneNameTakenNoIndex(row) == FALSE

ZoneNameTaken(row) ==
    \E z \in zones : z.id # row.id /\ z.shopName = row.shopName /\ z.name = row.name

\* db.deliveryZone.create
deliveryZone_create(row) ==
    IF ZoneNameTaken(row) THEN Thrown(zones, "Unique constraint failed")
    ELSE Returned(zones \cup {row})

\* ShopService.createDeliveryZone
createDeliveryZone(shopName, name, id) ==
    LET existingZone == {z \in zones : z.shopName = shopName /\ z.name = name}
    IN  IF shopName \notin Shops THEN Thrown(zones, "Shop not found")
        ELSE IF existingZone # {}
             THEN Thrown(zones, "A delivery zone with this name already exists")
        ELSE deliveryZone_create(
                 [id |-> id, shopName |-> shopName, name |-> Trim(name),
                  isActive |-> TRUE])

\* ShopService.toggleDeliveryZone
toggleDeliveryZone(shopName, zoneId) ==
    LET existingZone == {z \in zones : z.id = zoneId /\ z.shopName = shopName}
    IN  IF existingZone = {}
        THEN Thrown(zones, "Delivery zone not found or access denied")
        ELSE Returned((zones \ existingZone)
                      \cup {[z EXCEPT !.isActive = ~z.isActive] : z \in existingZone})

\* ShopService.hasActiveSlots
hasActiveSlots(shopName, zoneId) ==
    Cardinality({s \in slots : s.zoneId = zoneId /\ s.shopName = shopName
                               /\ s.isActive}) > 0

\* ShopService.updateDeliveryZone
updateDeliveryZone(zoneId, shopName, name) ==
    LET existingZone == {z \in zones : z.id = zoneId /\ z.shopName = shopName}
        new(z) == IF name # "" THEN [z EXCEPT !.name = Trim(name)] ELSE z
    IN  IF existingZone = {}
        THEN Thrown(zones, "Delivery zone not found or access denied")
        ELSE LET z == CHOOSE z \in existingZone : TRUE
             IN  IF ZoneNameTaken(new(z)) THEN Thrown(zones, "Unique constraint failed")
                 ELSE Returned((zones \ existingZone) \cup {new(z)})

\* ShopService.deleteDeliveryZone.  The delete leaves the zone's blackout
\* dates behind as shop-wide ones (blackout_dates.zoneId is ON DELETE SET NULL);
\* the result carries both tables.
deleteDeliveryZone(zoneId, shopName) ==
    LET slotsCount == Cardinality({s \in slots : s.zoneId = zoneId})
        found == {z \in zones : z.id = zoneId /\ z.shopName = shopName}
        kept == [rows |-> zones, blackouts |-> blackouts]
    IN  IF slotsCount > 0
        THEN kept @@ [error |-> "Cannot delete zone with existing delivery slots"]
        ELSE IF found = {}
             THEN kept @@ [error |-> "Record to delete does not exist"]
        ELSE [rows |-> zones \ found,
              blackouts |-> {IF b.zoneId = zoneId THEN [b EXCEPT !.zoneId = NULL] ELSE b
                             : b \in blackouts},
              error |-> "none"]

\* The form validation of the delivery-zones action; rate is the sign of the
\* shipping rate typed (0: empty, zero or not a number).
deliveryZones_validate(name, rate) ==
    IF name = "" \/ rate = 0
    THEN "All fields are required and shipping rate must be a valid number"
    ELSE IF rate < 0 THEN "Shipping rate cannot be negative"
    ELSE "none"

\* app.delivery-zones action, actionType = create
deliveryZones_create(shop, name, rate) ==
    LET invalid == deliveryZones_validate(name, rate)
        result == createDeliveryZone(shop, name, ZoneId(nextId.zone))
    IN  IF invalid # "none"
        THEN /\ resp' = Response("deliveryZones.create", 400, invalid)
             /\ UNCHANGED <<dbVars, hooks, fxVars>>
        ELSE /\ result.error = "none" => nextId.zone <= MaxZones
             /\ zones' = result.rows
             /\ nextId' = IF result.error = "none"
                          THEN [nextId EXCEPT !.zone = @ + 1] ELSE nextId
             /\ resp' = Caught("deliveryZones.create", result)
             /\ UNCHANGED <<slots, blackouts, orders, hooks, fxVars>>

\* app.delivery-zones action, actionType = update (with a zoneId)
deliveryZones_update(shop, zoneId, name, rate) ==
    LET invalid == deliveryZones_validate(name, rate)
        result == updateDeliveryZone(zoneId, shop, name)
    IN  IF invalid # "none"
        THEN /\ resp' = Response("deliveryZones.update", 400, invalid)
             /\ UNCHANGED <<dbVars, hooks, fxVars>>
        ELSE /\ zones' = result.rows
             /\ resp' = Caught("deliveryZones.update", result)
             /\ UNCHANGED <<slots, blackouts, orders, nextId, hooks, fxVars>>

\* app.delivery-zones action, actionType = toggle
deliveryZones_toggle(shop, zoneId) ==
    LET result == toggleDeliveryZone(shop, zoneId)
    IN  /\ zones' = result.rows
        /\ resp' = Caught("deliveryZones.toggle", result)
        /\ UNCHANGED <<slots, blackouts, orders, nextId, hooks, fxVars>>

\* app.delivery-zones action, actionType = delete.  The action passes
\* (session.shop, zoneId) to deleteDeliveryZone(zoneId, shopName).
deliveryZones_delete(shop, zoneId) ==
    LET result == deleteDeliveryZone(shop, zoneId)
    IN  IF hasActiveSlots(shop, zoneId)
        THEN /\ resp' = Response("deliveryZones.delete", 400,
                                 "Cannot delete zone with active time slots or orders")
             /\ UNCHANGED <<dbVars, hooks, fxVars>>
        ELSE /\ zones' = result.rows
             /\ blackouts' = result.blackouts
             /\ resp' = Caught("deliveryZones.delete", result)
             /\ UNCHANGED <<slots, orders, nextId, hooks, fxVars>>

\* ShopService.deleteDeliveryZone called with its arguments as declared.
deleteDeliveryZone_call(zoneId, shopName) ==
    LET result == deleteDeliveryZone(zoneId, shopName)
    IN  /\ zones' = result.rows
        /\ blackouts' = result.blackouts
        /\ resp' = Caught("deleteDeliveryZone", result)
        /\ UNCHANGED <<slots, orders, nextId, hooks, fxVars>>

(***************************************************************************)
(* blackout_dates: the table's constraints and the blackout-dates action.  *)
(***************************************************************************)
\* UNIQUE INDEX blackout_dates_shopName_date_zoneId_key; a NULL zoneId never
\* collides in it.
BlackoutKeyTaken(row) ==
    \E b \in blackouts :
        /\ b.id # row.id
        /\ b.shopName = row.shopName /\ b.date = row.date
        /\ b.zoneId # NULL /\ b.zoneId = row.zoneId

\* FOREIGN KEY blackout_dates.zoneId -> delivery_zones.id
BlackoutZoneExists(row) == row.zoneId = NULL \/ \E z \in zones : z.id = row.zoneId

\* db.blackoutDate.create
blackoutDate_create(row) ==
    IF BlackoutKeyTaken(row) THEN Thrown(blackouts, "Unique constraint failed")
    ELSE IF ~BlackoutZoneExists(row)
         THEN Thrown(blackouts, "Foreign key constraint failed")
    ELSE Returned(blackouts \cup {row})

\* db.blackoutDate.update
blackoutDate_update(id, data) ==
    LET old == {b \in blackouts : b.id = id}
        new == [id |-> id] @@ data
    IN  IF old = {} THEN Thrown(blackouts, "Record to update not found")
        ELSE IF BlackoutKeyTaken(new) THEN Thrown(blackouts, "Unique constraint failed")
        ELSE IF ~BlackoutZoneExists(new)
             THEN Thrown(blackouts, "Foreign key constraint failed")
        ELSE Returned((blackouts \ old) \cup {new})

\* The data object of the blackout-dates action; zoneId is NULL for the empty
\* form field (a shop-wide blackout).
BlackoutData(shop, date, isRecurring, zoneId) ==
    [shopName |-> shop, date |-> date, isRecurring |-> isRecurring, zoneId |-> zoneId]

\* app.blackout-dates action, actionType = create
blackoutDates_create(shop, date, isRecurring, zoneId) ==
    LET data == BlackoutData(shop, date, isRecurring, zoneId)
        existing == {b \in blackouts : b.shopName = shop /\ b.date = date
                                       /\ b.zoneId = zoneId}
        result == blackoutDate_create([id |-> BlackoutId(nextId.blackout)] @@ data)
    IN  IF existing # {}
        THEN /\ resp' = Response("blackoutDates.create", 400,
                                 "Blackout date already exists for this date and zone")
             /\ UNCHANGED <<dbVars, hooks, fxVars>>
        ELSE /\ result.error = "none" => nextId.blackout <= MaxBlackouts
             /\ blackouts' = result.rows
             /\ nextId' = IF result.error = "none"
                          THEN [nextId EXCEPT !.blackout = @ + 1] ELSE nextId
             /\ resp' = Caught("blackoutDates.create", result)
             /\ UNCHANGED <<zones, slots, orders, hooks, fxVars>>

\* app.blackout-dates action, actionType = update (with a blackoutId)
blackoutDates_update(shop, blackoutId, date, isRecurring, zoneId) ==
    LET result == blackoutDate_update(blackoutId,
                                      BlackoutData(shop, date, isRecurring, zoneId))
    IN  /\ blackouts' = result.rows
        /\ resp' = Caught("blackoutDates.update", result)
        /\ UNCHANGED <<zones, slots, orders, nextId, hooks, fxVars>>

\* app.blackout-dates action, actionType = delete
blackoutDates_delete(blackoutId) ==
    LET found == {b \in blackouts : b.id = blackoutId}
    IN  /\ blackouts' = blackouts \ found
        /\ resp' = IF found = {}
                   THEN Response("blackoutDates.delete", 500,
                                 "Record to delete does not exist")
                   ELSE Response("blackoutDates.delete", 200, "none")
        /\ UNCHANGED <<zones, slots, orders, nextId, hooks, fxVars>>

\* app.blackout-dates action with a date field new Date() cannot read
blackoutDates_invalidDate ==
    /\ resp' = Response("blackoutDates.create", 400, "Invalid date provided")
    /\ UNCHANGED <<dbVars, hooks, fxVars>>

(***************************************************************************)
(* Availability: blackout dates, booking counts, DeliveryService.          *)
(***************************************************************************)
\* The OR of isDateBlackedOut's where clauses: the entry is the zone's or
\* shop-wide.
AppliesToZoneOnly(b, zoneId) == b.zoneId = zoneId

AppliesTo(b, zoneId) == b.zoneId = zoneId \/ b.zoneId = NULL

\* DeliveryService.isDateBlackedOut: the answers the call can give.  The
\* second query is a findFirst with no orderBy over the recurring entries:
\* the database is free to hand back any one of them, and only that one is
\* compared with the requested month and day.
isDateBlackedOut(shopName, date, zoneId) ==
    LET exactDateBlackout == {b \in blackouts : /\ b.shopName = shopName
                                                /\ b.date = date
                                                /\ AppliesTo(b, zoneId)}
        recurring == {b \in blackouts : /\ b.shopName = shopName
                                        /\ b.isRecurring
                                        /\ AppliesTo(b, zoneId)}
    IN  IF exactDateBlackout # {} THEN {TRUE}
        ELSE IF recurring = {} THEN {FALSE}
        ELSE {MonthDay(recurringBlackout.date) = MonthDay(date) :
                  recurringBlackout \in recurring}

\* DeliveryService.getSlotBookingsForDate, counting every status.
getSlotBookingsAnyStatus(slotId, date) ==
    LET start == date
        end == start + 1
    IN  Cardinality({o \in orders : /\ o.deliverySlotId = slotId
                                    /\ o.deliveryDate >= start
                                    /\ o.deliveryDate < end})

\* DeliveryService.getSlotBookingsForDate: start is the UTC midnight of the
\* date, end the next one.
getSlotBookingsForDate(slotId, date) ==
    LET start == date
        end == start + 1
    IN  Cardinality({o \in orders : /\ o.deliverySlotId = slotId
                                    /\ o.status # "CANCELLED"
                                    /\ o.deliveryDate >= start
                                    /\ o.deliveryDate < end})

\* DeliveryService.isSlotAvailableForDate: the answers the call can give.
isSlotAvailableForDate(slotId, requestedDate) ==
    LET found == {s \in slots : s.id = slotId}
    IN  IF found = {} THEN {FALSE}
        ELSE LET slot == CHOOSE s \in found : TRUE
             IN  IF ~slot.isActive THEN {FALSE}
                 ELSE {IF isBlackedOut THEN FALSE
                       ELSE getSlotBookingsForDate(slotId, requestedDate) < slot.capacity :
                          isBlackedOut \in isDateBlackedOut(slot.shopName, requestedDate,
                                                            slot.zoneId)}

\* DeliveryService.getAvailableSlots: the lists the call can give (as sets of
\* slot ids).
getAvailableSlots(shopName, requestedDate, zoneId) ==
    LET open == {s \in slots : /\ s.shopName = shopName /\ s.zoneId = zoneId
                               /\ s.isActive
                               /\ s.capacity - getSlotBookingsForDate(s.id, requestedDate) > 0}
    IN  {IF isBlackoutDate THEN {} ELSE {s.id : s \in open} :
            isBlackoutDate \in isDateBlackedOut(shopName, requestedDate, zoneId)}

(***************************************************************************)
(* orders: the table's constraints and the webhooks.                       *)
(***************************************************************************)
\* UNIQUE INDEX orders_shopifyOrderId_key
OrderIdTakenNoIndex(row) == FALSE

OrderIdTaken(row) == \E o \in orders : o.shopifyOrderId = row.shopifyOrderId

\* FOREIGN KEY orders.deliverySlotId -> delivery_slots.id
OrderSlotExistsNoKey(row) == TRUE

OrderSlotExists(row) == \E s \in slots : s.id = row.deliverySlotId

\* tx.order.create
order_create(row) ==
    IF OrderIdTaken(row) THEN Thrown(orders, "Unique constraint failed")
    ELSE IF ~OrderSlotExists(row) THEN Thrown(orders, "Foreign key constraint failed")
    ELSE Returned(orders \cup {row})

\* The orders/create payloads: where the delivery selection sits.  metafield
\* is the delivery_scheduler.selection metafield ("absent", "bad" when its
\* value is not JSON, "json"); slotAttr and dateAttr say whether the
\* delivery_slot_id and delivery_date note attributes are there; info is the
\* delivery_info note attribute ("absent", "bad", "dated" when it parses and
\* has a date, "undated" when it parses and has none).
PayloadShapes ==
    {[metafield |-> "json", slotAttr |-> FALSE, dateAttr |-> FALSE, info |-> "absent"],
     [metafield |-> "bad", slotAttr |-> TRUE, dateAttr |-> TRUE, info |-> "absent"],
     [metafield |-> "absent", slotAttr |-> TRUE, dateAttr |-> TRUE, info |-> "bad"],
     [metafield |-> "absent", slotAttr |-> TRUE, dateAttr |-> FALSE, info |-> "dated"],
     [metafield |-> "absent", slotAttr |-> TRUE, dateAttr |-> FALSE, info |-> "undated"],
     [metafield |-> "absent", slotAttr |-> FALSE, dateAttr |-> TRUE, info |-> "dated"],
     [metafield |-> "bad", slotAttr |-> FALSE, dateAttr |-> FALSE, info |-> "absent"]}

NoSelection == [found |-> FALSE]
Selection(slotId, deliveryDate) ==
    [found |-> TRUE, slotId |-> slotId, deliveryDate |-> deliveryDate]

\* WebHookService.extractDeliverySelection; order.slotId and
\* order.deliveryDate are the values the payload carries where its shape has
\* them.
extractDeliverySelection(order) ==
    IF order.shape.metafield = "json"
    THEN Selection(order.slotId, order.deliveryDate)
    ELSE IF order.shape.slotAttr /\ order.shape.dateAttr
         THEN Selection(order.slotId, order.deliveryDate)
    ELSE IF order.shape.slotAttr /\ order.shape.info = "dated"
         THEN Selection(order.slotId, order.deliveryDate)
    ELSE NoSelection

\* What the webhook route answers for a processWebhook result, with the
\* result's success flag.
WebhookResponseAlways200(topic, success, error) ==
    [op |-> topic, status |-> 200, error |-> error, success |-> success]

WebhookResponse(topic, success, error) ==
    [op |-> topic, status |-> IF success THEN 200 ELSE 500, error |-> error,
     success |-> success]

\* The errors handleOrderCreated's transaction throws by itself.
BusinessErrors ==
    {"Delivery slot not found",
     "Selected delivery slot is no longer active",
     "Selected delivery slot is not available for the requested date"}

\* The catch of handleOrderCreated, reporting only the missing slot as a
\* success.
handleOrderCreated_catchNotFoundOnly(message) ==
    IF message = "Delivery slot not found" THEN {TRUE} ELSE {FALSE}

\* The catch of handleOrderCreated: the success flags it can report for an
\* error message.  The three messages of the transaction contain 'slot'; the
\* message of a database error holds the constraint's name and, where the
\* client finds the source, the lines around the failing call (which name
\* slot.startTime), so it may or may not contain one of the three words.
handleOrderCreated_catch(message) ==
    IF message \in BusinessErrors THEN {TRUE} ELSE BOOLEAN

\* The checks of handleOrderCreated's transaction that come before the
\* insert: the messages they can end with ("none": the insert is next).
orderCreated_checks(slotId, requestedDate) ==
    LET found == {s \in slots : s.id = slotId}
    IN  IF found = {} THEN {"Delivery slot not found"}
        ELSE IF ~(CHOOSE s \in found : TRUE).isActive
             THEN {"Selected delivery slot is no longer active"}
        ELSE {IF isAvailable THEN "none"
              ELSE "Selected delivery slot is not available for the requested date" :
                 isAvailable \in isSlotAvailableForDate(slotId, requestedDate)}

\* WebHookService.handleOrderCreated, up to the insert: worker p takes an
\* orders/create webhook, extracts the selection and runs the checks.
orderCreated_begin(p, shop, order) ==
    LET deliverySelection == extractDeliverySelection(order)
    IN  /\ hooks[p].pc = "idle"
        /\ UNCHANGED <<dbVars, fxVars>>
        /\ IF ~deliverySelection.found
           THEN /\ resp' = WebhookResponse("orders/create", TRUE, "none")
                /\ UNCHANGED hooks
           ELSE \E failed \in orderCreated_checks(deliverySelection.slotId,
                                                  deliverySelection.deliveryDate) :
                    IF failed # "none"
                    THEN /\ \E success \in handleOrderCreated_catch(failed) :
                               resp' = WebhookResponse("orders/create", success, failed)
                         /\ UNCHANGED hooks
                    ELSE /\ hooks' = [hooks EXCEPT ![p] =
                                [pc |-> "insert", shopName |-> shop,
                                 shopifyOrderId |-> order.id,
                                 slotId |-> deliverySelection.slotId,
                                 deliveryDate |-> deliverySelection.deliveryDate]]
                         /\ UNCHANGED resp

\* WebHookService.handleOrderCreated, the insert and the commit.  When the
\* insert throws the transaction rolls back and the catch answers; when it
\* commits the handler goes on to the Shopify update and the email.
orderCreated_insert(p) ==
    LET h == hooks[p]
        result == order_create(
                      [id |-> OrderRowId(nextId.order), shopName |-> h.shopName,
                       shopifyOrderId |-> h.shopifyOrderId,
                       deliverySlotId |-> h.slotId, deliveryDate |-> h.deliveryDate,
                       status |-> "CONFIRMED"])
    IN  /\ h.pc = "insert"
        /\ orders' = result.rows
        /\ nextId' = IF result.error = "none"
                     THEN [nextId EXCEPT !.order = @ + 1] ELSE nextId
        /\ UNCHANGED <<zones, slots, blackouts, fxVars>>
        /\ IF result.error = "none"
           THEN /\ hooks' = [hooks EXCEPT ![p] =
                       [pc |-> "notify", shopifyOrderId |-> h.shopifyOrderId]]
                /\ UNCHANGED resp
           ELSE /\ hooks' = [hooks EXCEPT ![p] = IdleHook]
                /\ \E success \in handleOrderCreated_catch(result.error) :
                      resp' = WebhookResponse("orders/create", success, result.error)

\* What the world does to the calls handleOrderCreated makes after the
\* commit: whether the session table has an access token for the shop, what
\* the GraphQL request ends with, and whether the mail transport takes the
\* email.
Outcomes ==
    [token : BOOLEAN, fetch : {"ok", "http error", "graphql error"}, mail : {"ok", "error"}]

AllFine == [token |-> TRUE, fetch |-> "ok", mail |-> "ok"]

\* WebHookService.updateShopifyOrder with createDirectAPIClient and
\* updateOrderWithFetch: it catches every error itself.
updateShopifyOrder(outcome) ==
    IF ~outcome.token THEN "failed"
    ELSE IF outcome.fetch # "ok" THEN "failed"
    ELSE "updated"

\* The success flag of handleOrderCreated after the commit, were the
\* failures of the Shopify update and of the email to reach its catch.
orderCreated_resultUncaught(outcome) == outcome = AllFine

\* The success flag of handleOrderCreated after the commit:
\* updateShopifyOrder catches what it throws and the email's promise has a
\* catch of its own.
orderCreated_result(outcome) == TRUE

\* WebHookService.handleOrderCreated after the commit: the Shopify order
\* update, the confirmation email (its promise is not awaited) and the
\* result.
orderCreated_notify(p, outcome) ==
    LET id == hooks[p].shopifyOrderId
    IN  /\ hooks[p].pc = "notify"
        /\ shopifyOrders' = [shopifyOrders EXCEPT ![id] = updateShopifyOrder(outcome)]
        /\ emails' = [emails EXCEPT ![id].confirmation =
                          IF outcome.mail = "ok" THEN "sent" ELSE "failed"]
        /\ hooks' = [hooks EXCEPT ![p] = IdleHook]
        /\ resp' = WebhookResponse("orders/create", orderCreated_result(outcome), "none")
        /\ UNCHANGED dbVars

\* WebHookService.handleOrderCancelled, the read of its transaction.
orderCancelled_begin(p, shopifyOrderId) ==
    LET dbOrder == {o \in orders : o.shopifyOrderId = shopifyOrderId}
    IN  /\ hooks[p].pc = "idle"
        /\ UNCHANGED <<dbVars, fxVars>>
        /\ IF dbOrder = {}
           THEN /\ resp' = WebhookResponse("orders/cancelled", TRUE, "none")
                /\ UNCHANGED hooks
           ELSE IF \E o \in dbOrder : o.status = "CANCELLED"
                THEN /\ resp' = WebhookResponse("orders/cancelled", TRUE, "none")
                     /\ UNCHANGED hooks
           ELSE /\ hooks' = [hooks EXCEPT ![p] =
                       [pc |-> "cancel", shopifyOrderId |-> shopifyOrderId,
                        orderId |-> (CHOOSE o \in dbOrder : TRUE).id]]
                /\ UNCHANGED resp

\* tx.order.update / db.order.update, giving a cancelled order its status
\* back.
order_setCancelledOrRestored(found) ==
    (orders \ found)
    \cup {[o EXCEPT !.status = IF @ = "CANCELLED" THEN "CONFIRMED" ELSE "CANCELLED"] :
             o \in found}

\* tx.order.update / db.order.update
order_setCancelled(found) ==
    (orders \ found) \cup {[o EXCEPT !.status = "CANCELLED"] : o \in found}

\* WebHookService.handleOrderCancelled, the update, the commit and, as the
\* transaction did not find the order cancelled, the cancellation email.
orderCancelled_update(p) ==
    LET h == hooks[p]
    IN  /\ h.pc = "cancel"
        /\ orders' = order_setCancelled({o \in orders : o.id = h.orderId})
        /\ emails' = [emails EXCEPT ![h.shopifyOrderId].cancellation = @ + 1]
        /\ hooks' = [hooks EXCEPT ![p] = IdleHook]
        /\ resp' = WebhookResponse("orders/cancelled", TRUE, "none")
        /\ UNCHANGED <<zones, slots, blackouts, nextId, shopifyOrders>>

\* The topics of the webhooks Shopify delivers.
Topics == {"orders/create", "orders/cancelled", "app/uninstalled"}

\* webhooks.all action when authenticate.webhook yields no session:
\* processWebhook is not called.
webhook_noSession(topic) ==
    /\ resp' = Response(topic, 401, "Unauthorized")
    /\ UNCHANGED <<dbVars, hooks, fxVars>>

\* WebHookService.processWebhook for a topic it has no handler for.
processWebhook_default(topic) ==
    /\ topic \notin {"orders/create", "orders/cancelled"}
    /\ resp' = WebhookResponse(topic, TRUE, "none")
    /\ UNCHANGED <<dbVars, hooks, fxVars>>

\* DeliveryService.releaseDeliverySlot behind the release-slot action (the
\* request names an order).
releaseSlot_order(slotId, orderId) ==
    LET order == {o \in orders : o.shopifyOrderId = orderId}
    IN  IF order = {}
        THEN /\ resp' = Response("release-slot", 409, "Order not found")
             /\ UNCHANGED <<dbVars, hooks, fxVars>>
        ELSE /\ orders' = order_setCancelled(order)
             /\ resp' = Response("release-slot", 200, "none")
             /\ UNCHANGED <<zones, slots, blackouts, nextId, hooks, fxVars>>

\* DeliveryService.releaseSlot behind the release-slot action (the request
\* names no order): the decrement of currentOrders where it is above zero.
releaseSlot_counter(slotId) ==
    LET held == {s \in slots : s.id = slotId /\ s.currentOrders > 0}
    IN  /\ slots' = (slots \ held)
                    \cup {[s EXCEPT !.currentOrders = @ - 1] : s \in held}
        /\ resp' = IF held = {} THEN Response("release-slot", 409, "Failed to release slot")
                   ELSE Response("release-slot", 200, "none")
        /\ UNCHANGED <<zones, blackouts, orders, nextId, hooks, fxVars>>

(***************************************************************************)
(* The storefront API: the loaders and actions of                          *)
(* apps.delivery-scheduler.$args.  A missing query parameter or body field *)
(* is the empty string; every response is written with the status given to *)
(* json() (200 when none is given) and the body's error field ("none"      *)
(* when the body has none).  Every body with success: false has an error   *)
(* field too.                                                              *)
(***************************************************************************)
\* The delivery_date / deliveryDate / date parameter: missing, a string new
\* Date() cannot read, a day before today, or a day from today on.
DateParams(dates) ==
    {[kind |-> "missing", date |-> 0], [kind |-> "invalid", date |-> 0]}
    \cup [kind : {"past", "day"}, date : dates]

\* The date parameters new Date() can read, and the missing one.
ReadableDateParams(dates) == {d \in DateParams(dates) : d.kind # "invalid"}

\* DeliveryService.getZoneByCountryCode: the rows the findFirst can find.
getZoneByCountryCode(shopName, countryCode) ==
    {z \in zones : z.shopName = shopName /\ z.name = countryCode /\ z.isActive}

\* DeliveryZones.loader
DeliveryZones_loader(countryCode, shopName) ==
    /\ resp' = IF countryCode = "" \/ shopName = ""
               THEN Response("zones", 400, "Country code and shop are required")
               ELSE IF getZoneByCountryCode(shopName, countryCode) = {}
                    THEN Response("zones", 404, "No delivery zone found for this country")
               ELSE Response("zones", 200, "none")
    /\ UNCHANGED <<dbVars, hooks, fxVars>>

\* DeliveryEstimate.loader
DeliveryEstimate_loader(countryCode, deliveryDate, shopName) ==
    LET zone == getZoneByCountryCode(shopName, countryCode)
    IN  /\ UNCHANGED <<dbVars, hooks, fxVars>>
        /\ IF countryCode = "" \/ deliveryDate.kind = "missing" \/ shopName = ""
           THEN resp' = Response("estimate", 400, "Missing required parameters")
           ELSE IF deliveryDate.kind = "invalid"
                THEN resp' = Response("estimate", 400, "Invalid delivery date")
           ELSE IF deliveryDate.kind = "past"
                THEN resp' = Response("estimate", 400, "Cannot select past dates")
           ELSE IF zone = {}
                THEN resp' = Response("estimate", 404, "Delivery not available in this area")
           ELSE \E z \in zone :
                   \E isBlackedOut \in isDateBlackedOut(shopName, deliveryDate.date, z.id) :
                      resp' = IF isBlackedOut
                              THEN Response("estimate", 400,
                                            "Selected date is not available for delivery")
                              ELSE Response("estimate", 200, "none")

\* DeliverySlots.loader, for the dates new Date() can read.
DeliverySlots_loader(date, zoneId, shopName) ==
    /\ resp' = IF date.kind = "missing" \/ zoneId = "" \/ shopName = ""
               THEN Response("slots", 400, "Date, zone_id, and shop are required")
               ELSE Response("slots", 200, "none")
    /\ UNCHANGED <<dbVars, hooks, fxVars>>

\* BlackoutDates.loader
BlackoutDates_loader(shopName) ==
    /\ resp' = IF shopName = ""
               THEN Response("blackout-dates", 400, "Shop parameter is required")
               ELSE Response("blackout-dates", 200, "none")
    /\ UNCHANGED <<dbVars, hooks, fxVars>>

\* DeliveryAvailability.loader
DeliveryAvailability_loader(countryCode, deliveryDate, shopName) ==
    LET zone == getZoneByCountryCode(shopName, countryCode)
    IN  /\ UNCHANGED <<dbVars, hooks, fxVars>>
        /\ IF countryCode = "" \/ deliveryDate.kind = "missing" \/ shopName = ""
           THEN resp' = Response("availability", 400,
                                 "Country code and delivery date are required")
           ELSE IF deliveryDate.kind = "invalid"
                THEN resp' = Response("availability", 400, "Invalid delivery date")
           ELSE IF zone = {}
                THEN resp' = Response("availability", 404,
                                      "Delivery not available in this area")
           ELSE \E z \in zone :
                   \E isBlackedOut \in isDateBlackedOut(shopName, deliveryDate.date, z.id) :
                      resp' = IF isBlackedOut
                              THEN Response("availability", 200,
                                            "Selected date is not available for delivery")
                              ELSE Response("availability", 200, "none")

\* DeliveryShopSettings.loader; the shop_settings row it may create is not
\* part of the model.
DeliveryShopSettings_loader(shopName) ==
    /\ resp' = IF shopName = ""
               THEN Response("shop-settings", 400, "Shop parameter is required")
               ELSE Response("shop-settings", 200, "none")
    /\ UNCHANGED <<dbVars, hooks, fxVars>>

\* ReserveSlot.action, holding a place in the slot's currentOrders when the
\* slot is available.
ReserveSlot_actionHolding(slotId, deliveryDate) ==
    /\ UNCHANGED <<zones, blackouts, orders, nextId, hooks, fxVars>>
    /\ IF slotId = "" \/ deliveryDate.kind = "missing"
       THEN /\ resp' = Response("reserve-slot", 400, "Slot ID and delivery date are required")
            /\ UNCHANGED slots
       ELSE \E isAvailable \in isSlotAvailableForDate(slotId, deliveryDate.date) :
               IF ~isAvailable
               THEN /\ resp' = Response("reserve-slot", 409,
                                        "Slot is not available for the selected date")
                    /\ UNCHANGED slots
               ELSE /\ resp' = Response("reserve-slot", 200, "none")
                    /\ slots' = {IF k.id = slotId
                                 THEN [k EXCEPT !.currentOrders = @ + 1] ELSE k : k \in slots}

\* ReserveSlot.action, for the dates new Date() can read.
ReserveSlot_action(slotId, deliveryDate) ==
    /\ UNCHANGED <<dbVars, hooks, fxVars>>
    /\ IF slotId = "" \/ deliveryDate.kind = "missing"
       THEN resp' = Response("reserve-slot", 400, "Slot ID and delivery date are required")
       ELSE \E isAvailable \in isSlotAvailableForDate(slotId, deliveryDate.date) :
               resp' = IF ~isAvailable
                       THEN Response("reserve-slot", 409,
                                     "Slot is not available for the selected date")
                       ELSE Response("reserve-slot", 200, "none")

\* ReleaseSlot.action
ReleaseSlot_action(slotId, orderId) ==
    IF slotId = ""
    THEN /\ resp' = Response("release-slot", 400, "Slot ID is required")
         /\ UNCHANGED <<dbVars, hooks, fxVars>>
    ELSE IF orderId # "" THEN releaseSlot_order(slotId, orderId)
    ELSE releaseSlot_counter(slotId)

\* loader and action of the route, for an endpoint that is none of theirs.
invalidEndpoint(method) ==
    /\ resp' = Response("invalid", 400, IF method = "GET" THEN "Invalid endpoint"
                                        ELSE "Invalid action endpoint")
    /\ UNCHANGED <<dbVars, hooks, fxVars>>

\* loader of the route, preflight request.
preflight ==
    /\ resp' = Response("options", 200, "none")
    /\ UNCHANGED <<dbVars, hooks, fxVars>>

(***************************************************************************)
(* The time-slot administration: two zones exist, the merchant creates,    *)
(* edits, toggles and deletes slots and toggles zones.                     *)
(***************************************************************************)
InitSlots ==
    /\ zones = {Zone(1, "shop-a", "US", TRUE), Zone(2, "shop-a", "BD", TRUE)}
    /\ slots = {}
    /\ blackouts = {}
    /\ orders = {}
    /\ nextId = [InitCounters EXCEPT !.zone = 3]
    /\ hooks = [p \in Procs |-> IdleHook]
    /\ emails = NoEmails
    /\ shopifyOrders = NoUpdates
    /\ resp = NoResponse

\* The forms a merchant submits: every well-formed one over the given
\* capacities, and one of each kind the validation turns down.
SlotForms(capacities) ==
    {f \in [startTime : Times, endTime : Times, capacity : capacities] :
        f.startTime < f.endTime}
    \cup {[startTime |-> 0, endTime |-> 0, capacity |-> 1],
          [startTime |-> 0, endTime |-> 1, capacity |-> 0],
          [startTime |-> 0, endTime |-> 1, capacity |-> -1]}

NextSlots ==
    \/ \E shop \in Shops, f \in SlotForms({1}), z \in ZoneIds :
           timeSlots_create(shop, f.startTime, f.endTime, f.capacity, z)
    \/ \E id \in SlotIds, f \in SlotForms({1}), z \in ZoneIds :
           timeSlots_update(id, f.startTime, f.endTime, f.capacity, z)
    \/ \E id \in SlotIds : timeSlots_toggle(id)
    \/ \E id \in SlotIds : timeSlots_delete(id)
    \/ \E shop \in Shops, z \in ZoneIds : deliveryZones_toggle(shop, z)

SpecSlots == InitSlots /\ [][NextSlots]_vars

(***************************************************************************)
(* The zone administration: the merchant creates, renames, toggles and     *)
(* deletes zones, and gives them a slot or a blackout date.                *)
(***************************************************************************)
InitZones ==
    /\ zones = {}
    /\ slots = {}
    /\ blackouts = {}
    /\ orders = {}
    /\ nextId = InitCounters
    /\ hooks = [p \in Procs |-> IdleHook]
    /\ emails = NoEmails
    /\ shopifyOrders = NoUpdates
    /\ resp = NoResponse

NextZones ==
    \/ \E shop \in Shops, name \in ZoneNames, rate \in {-1, 0, 1} :
           deliveryZones_create(shop, name, rate)
    \/ \E shop \in Shops, z \in ZoneIds, name \in ZoneNames, rate \in {-1, 0, 1} :
           deliveryZones_update(shop, z, name, rate)
    \/ \E shop \in Shops, z \in ZoneIds : deliveryZones_toggle(shop, z)
    \/ \E shop \in Shops, z \in ZoneIds : deliveryZones_delete(shop, z)
    \/ \E shop \in Shops, z \in ZoneIds : deleteDeliveryZone_call(z, shop)
    \/ \E shop \in Shops, z \in ZoneIds : timeSlots_create(shop, 0, 1, 1, z)
    \/ \E id \in SlotIds : timeSlots_toggle(id)
    \/ \E id \in SlotIds : timeSlots_delete(id)
    \/ \E shop \in Shops, z \in ZoneIds : blackoutDates_create(shop, 0, FALSE, z)

SpecZones == InitZones /\ [][NextZones]_vars

(***************************************************************************)
(* Orders: webhook workers take orders/create and orders/cancelled         *)
(* webhooks whose steps interleave with each other, with the storefront's  *)
(* release-slot calls and with the merchant's work on zones and slots.     *)
(***************************************************************************)
InitOrders ==
    /\ zones = {Zone(1, "shop-a", "US", TRUE)}
    /\ slots = {}
    /\ blackouts = {}
    /\ orders = {}
    /\ nextId = [InitCounters EXCEPT !.zone = 2]
    /\ hooks = [p \in Procs |-> IdleHook]
    /\ emails = NoEmails
    /\ shopifyOrders = NoUpdates
    /\ resp = NoResponse

\* The orders/create webhooks Shopify sends: every shape of payload, for the
\* given slots and dates.
OrderPayloads(slotIds, dates) ==
    [id : ShopifyOrderIds, shape : PayloadShapes, slotId : slotIds, deliveryDate : dates]

NextOrders ==
    \/ \E p \in Procs, shop \in Shops, order \in OrderPayloads(SlotIds, {0}) :
           orderCreated_begin(p, shop, order)
    \/ \E p \in Procs : orderCreated_insert(p)
    \/ \E p \in Procs : orderCreated_notify(p, AllFine)
    \/ \E p \in Procs, id \in ShopifyOrderIds : orderCancelled_begin(p, id)
    \/ \E p \in Procs : orderCancelled_update(p)
    \/ \E s \in SlotIds, id \in ShopifyOrderIds : releaseSlot_order(s, id)
    \/ \E s \in SlotIds : releaseSlot_counter(s)
    \/ \E shop \in Shops, cap \in 1..MaxCapacity, z \in ZoneIds :
           timeSlots_create(shop, 0, 1, cap, z)
    \/ \E id \in SlotIds, cap \in 1..MaxCapacity, z \in ZoneIds :
           timeSlots_update(id, 0, 1, cap, z)
    \/ \E id \in SlotIds : timeSlots_toggle(id)
    \/ \E id \in SlotIds : timeSlots_delete(id)
    \/ \E shop \in Shops, z \in ZoneIds : deleteDeliveryZone_call(z, shop)

SpecOrders == InitOrders /\ [][NextOrders]_vars

(***************************************************************************)
(* Bookings: the webhook workers and the storefront's release-slot calls   *)
(* on two slots the merchant leaves alone, one of capacity 1 and one of    *)
(* capacity 2.                                                             *)
(***************************************************************************)
InitHooks ==
    /\ zones = {Zone(1, "shop-a", "US", TRUE)}
    /\ slots = {Slot(1, "shop-a", ZoneId(1), 0, 1, 1, TRUE),
                Slot(2, "shop-a", ZoneId(1), 1, 2, 2, TRUE)}
    /\ blackouts = {}
    /\ orders = {}
    /\ nextId = [InitCounters EXCEPT !.zone = 2, !.slot = 3]
    /\ hooks = [p \in Procs |-> IdleHook]
    /\ emails = NoEmails
    /\ shopifyOrders = NoUpdates
    /\ resp = NoResponse

NextHooks ==
    \/ \E p \in Procs, shop \in Shops,
          order \in OrderPayloads({SlotId(1), SlotId(2)}, {0, 1}) :
           orderCreated_begin(p, shop, order)
    \/ \E p \in Procs : orderCreated_insert(p)
    \/ \E p \in Procs : orderCreated_notify(p, AllFine)
    \/ \E p \in Procs, id \in ShopifyOrderIds : orderCancelled_begin(p, id)
    \/ \E p \in Procs : orderCancelled_update(p)
    \/ \E id \in ShopifyOrderIds : releaseSlot_order(SlotId(1), id)
    \/ releaseSlot_counter(SlotId(1))

SpecHooks == InitHooks /\ [][NextHooks]_vars

(***************************************************************************)
(* Blackout dates: the merchant keeps the blackout dates of two zones and  *)
(* switches the slot of one of them on and off while one webhook worker    *)
(* takes the orders/create webhooks one at a time: nothing else runs       *)
(* between a webhook's checks and its write.                               *)
(***************************************************************************)
InitSerial ==
    /\ zones = {Zone(1, "shop-a", "US", TRUE), Zone(2, "shop-a", "BD", TRUE)}
    /\ slots = {Slot(1, "shop-a", ZoneId(1), 0, 1, 1, TRUE)}
    /\ blackouts = {}
    /\ orders = {}
    /\ nextId = [InitCounters EXCEPT !.zone = 3, !.slot = 2]
    /\ hooks = [p \in Procs |-> IdleHook]
    /\ emails = NoEmails
    /\ shopifyOrders = NoUpdates
    /\ resp = NoResponse

\* No webhook is between its checks and its write.
AllIdle == \A p \in Procs : hooks[p].pc = "idle"

\* The delivery dates of the orders: the days of the last year.
OrderDates == {d \in Dates : d >= (NumYears - 1) * DaysPerYear}

NextSerial ==
    \/ /\ AllIdle
       /\ \E shop \in Shops, d \in Dates, r \in BOOLEAN, z \in ZoneIds \cup {NULL} :
              blackoutDates_create(shop, d, r, z)
    \/ /\ AllIdle
       /\ \E shop \in Shops, b \in BlackoutIds, d \in Dates, r \in BOOLEAN,
             z \in ZoneIds \cup {NULL} :
              blackoutDates_update(shop, b, d, r, z)
    \/ /\ AllIdle
       /\ \E b \in BlackoutIds : blackoutDates_delete(b)
    \/ /\ AllIdle
       /\ blackoutDates_invalidDate
    \/ /\ AllIdle
       /\ \E id \in SlotIds : timeSlots_toggle(id)
    \/ \E shop \in Shops, order \in OrderPayloads(SlotIds, OrderDates) :
           orderCreated_begin(1, shop, order)
    \/ orderCreated_insert(1)
    \/ orderCreated_notify(1, AllFine)

SpecSerial == InitSerial /\ [][NextSerial]_vars

(***************************************************************************)
(* The storefront: the checkout extension calls the API while the merchant *)
(* keeps the blackout dates and toggles a zone, and a webhook worker       *)
(* stores orders.                                                          *)
(***************************************************************************)
InitApi ==
    /\ zones = {Zone(1, "shop-a", "US", TRUE)}
    /\ slots = {Slot(1, "shop-a", ZoneId(1), 0, 1, 1, TRUE)}
    /\ blackouts = {}
    /\ orders = {}
    /\ nextId = [InitCounters EXCEPT !.zone = 2, !.slot = 2]
    /\ hooks = [p \in Procs |-> IdleHook]
    /\ emails = NoEmails
    /\ shopifyOrders = NoUpdates
    /\ resp = NoResponse

\* The country_code and shop parameters of a request.
CountryCodes == {"US", "BD", ""}
ShopParams == Shops \cup {""}

NextApi ==
    \/ \E c \in CountryCodes, shop \in ShopParams : DeliveryZones_loader(c, shop)
    \/ \E c \in CountryCodes, d \in DateParams(Dates), shop \in ShopParams :
           DeliveryEstimate_loader(c, d, shop)
    \/ \E d \in DateParams(Dates), z \in ZoneIds \cup {""}, shop \in ShopParams :
           DeliverySlots_loader(d, z, shop)
    \/ \E shop \in ShopParams : BlackoutDates_loader(shop)
    \/ \E c \in CountryCodes, d \in DateParams(Dates), shop \in ShopParams :
           DeliveryAvailability_loader(c, d, shop)
    \/ \E shop \in ShopParams : DeliveryShopSettings_loader(shop)
    \/ \E s \in SlotIds \cup {""}, d \in ReadableDateParams(OrderDates) :
           ReserveSlot_action(s, d)
    \/ \E s \in SlotIds \cup {""}, o \in ShopifyOrderIds \cup {""} : ReleaseSlot_action(s, o)
    \/ \E method \in {"GET", "POST"} : invalidEndpoint(method)
    \/ preflight
    \/ \E shop \in Shops, d \in Dates, r \in BOOLEAN :
           blackoutDates_create(shop, d, r, NULL)
    \/ \E b \in BlackoutIds : blackoutDates_delete(b)
    \/ \E shop \in Shops : deliveryZones_toggle(shop, ZoneId(1))
    \/ \E shop \in Shops, order \in OrderPayloads({SlotId(1)}, {0}) :
           orderCreated_begin(1, shop, order)
    \/ orderCreated_insert(1)
    \/ orderCreated_notify(1, AllFine)

SpecApi == InitApi /\ [][NextApi]_vars

(***************************************************************************)
(* Webhooks: two workers take the webhooks Shopify delivers (and delivers  *)
(* again), with or without a session, while Shopify and the mail transport *)
(* answer as they please, the storefront reserves and releases, and the    *)
(* merchant switches the one slot (capacity 1) on and off.                 *)
(***************************************************************************)
InitWebhooks ==
    /\ zones = {Zone(1, "shop-a", "US", TRUE)}
    /\ slots = {Slot(1, "shop-a", ZoneId(1), 0, 1, 1, TRUE)}
    /\ blackouts = {}
    /\ orders = {}
    /\ nextId = [InitCounters EXCEPT !.zone = 2, !.slot = 2]
    /\ hooks = [p \in Procs |-> IdleHook]
    /\ emails = NoEmails
    /\ shopifyOrders = NoUpdates
    /\ resp = NoResponse

\* The orders/create webhooks of this scenario: the selection is in the
\* metafield or nowhere.
MetafieldPayloads ==
    {order \in OrderPayloads(SlotIds, {0}) :
        order.shape.metafield # "absent" /\ ~order.shape.slotAttr}

NextWebhooks ==
    \/ \E p \in Procs, shop \in Shops, order \in MetafieldPayloads :
           orderCreated_begin(p, shop, order)
    \/ \E p \in Procs : orderCreated_insert(p)
    \/ \E p \in Procs, outcome \in Outcomes : orderCreated_notify(p, outcome)
    \/ \E p \in Procs, id \in ShopifyOrderIds : orderCancelled_begin(p, id)
    \/ \E p \in Procs : orderCancelled_update(p)
    \/ \E topic \in Topics : webhook_noSession(topic)
    \/ \E topic \in Topics : processWebhook_default(topic)
    \/ \E s \in SlotIds \cup {""}, d \in ReadableDateParams({0}) :
           ReserveSlot_action(s, d)
    \/ \E s \in SlotIds \cup {""}, o \in ShopifyOrderIds \cup {""} : ReleaseSlot_action(s, o)
    \/ timeSlots_toggle(SlotId(1))

SpecWebhooks == InitWebhooks /\ [][NextWebhooks]_vars

(***************************************************************************)
(* Reservations: the checkout reserves and releases the one slot           *)
(* (capacity 1) while orders arrive one at a time and the merchant keeps   *)
(* shop-wide blackout dates and switches the slot on and off.              *)
(***************************************************************************)
\* The reserve-slot requests: any slot id or none, a day orders are placed
\* for or no date.
ReserveRequests ==
    (SlotIds \cup {""}) \X {d \in ReadableDateParams(OrderDates) : d.kind # "past"}

NextReserve ==
    \/ \E r \in ReserveRequests : ReserveSlot_action(r[1], r[2])
    \/ \E o \in ShopifyOrderIds \cup {""} : ReleaseSlot_action(SlotId(1), o)
    \/ \E shop \in Shops, d \in Dates, r \in BOOLEAN :
           blackoutDates_create(shop, d, r, NULL)
    \/ \E b \in BlackoutIds : blackoutDates_delete(b)
    \/ timeSlots_toggle(SlotId(1))
    \/ \E shop \in Shops, order \in OrderPayloads({SlotId(1)}, OrderDates) :
           order.shape.metafield = "json" /\ orderCreated_begin(1, shop, order)
    \/ orderCreated_insert(1)
    \/ orderCreated_notify(1, AllFine)

SpecReserve == InitApi /\ [][NextReserve]_vars

(***************************************************************************)
(* Properties of the time-slot administration.                             *)
(***************************************************************************)
\* The time ranges [s.startTime, s.endTime) and [startTime, endTime) share a time.
Intersects(s, startTime, endTime) ==
    \E t \in Times : /\ s.startTime <= t /\ t < s.endTime
                     /\ startTime <= t /\ t < endTime

\* An active slot of the shop and zone whose time range the new range meets.
MeetsActiveSlot(shop, zoneId, startTime, endTime) ==
    \E s \in slots : /\ s.shopName = shop /\ s.zoneId = zoneId /\ s.isActive
                     /\ Intersects(s, startTime, endTime)

ZoneIsActive(shop, zoneId) ==
    \E z \in zones : z.id = zoneId /\ z.shopName = shop /\ z.isActive

\* A step in which the create action hands this slot to createDeliverySlot.
CreateDeliverySlotCalled(shop, startTime, endTime, capacity, zoneId) ==
    /\ timeSlots_validate(startTime, endTime, capacity) = "none"
    /\ timeSlots_create(shop, startTime, endTime, capacity, zoneId)

\* C1 as stated: createDeliverySlot throws 'Time slot overlaps with existing
\* slot' and inserts no row for every new slot whose time range intersects that
\* of an existing active slot of the same shop and zone.
C1_OverlapAlwaysReportedAsOverlap ==
    [][resp'.op = "timeSlots.create" =>
       \A shop \in Shops, f \in SlotForms({1}), z \in ZoneIds :
          (/\ MeetsActiveSlot(shop, z, f.startTime, f.endTime)
           /\ CreateDeliverySlotCalled(shop, f.startTime, f.endTime, f.capacity, z))
          => /\ slots' = slots
             /\ resp'.error = "Time slot overlaps with existing slot"]_vars

\* C1 as amended: createDeliverySlot throws and inserts no row for every new slot
\* whose time range intersects that of an existing active slot of the same shop
\* and zone; the error is 'Time slot overlaps with existing slot' when the zone
\* is an active zone of the shop and 'Invalid delivery zone for this shop' when
\* it is not.
C1_OverlapRejected ==
    [][resp'.op = "timeSlots.create" =>
       \A shop \in Shops, f \in SlotForms({1}), z \in ZoneIds :
          (/\ MeetsActiveSlot(shop, z, f.startTime, f.endTime)
           /\ CreateDeliverySlotCalled(shop, f.startTime, f.endTime, f.capacity, z))
          => /\ slots' = slots
             /\ resp'.status = 500
             /\ resp'.error = IF ZoneIsActive(shop, z)
                              THEN "Time slot overlaps with existing slot"
                              ELSE "Invalid delivery zone for this shop"]_vars

\* C1 witness: a create was rejected as overlapping while a slot is stored.
C1_Witness ==
    /\ resp = Response("timeSlots.create", 500, "Time slot overlaps with existing slot")
    /\ \E s \in slots : s.isActive

\* C9 as stated: no two active slots of the same shop and zone have
\* intersecting time ranges.
C9_NoActiveOverlap ==
    \A s1 \in slots, s2 \in slots :
        (/\ s1.id # s2.id
         /\ s1.isActive /\ s2.isActive
         /\ s1.shopName = s2.shopName /\ s1.zoneId = s2.zoneId)
        => ~Intersects(s1, s2.startTime, s2.endTime)

(***************************************************************************)
(* Properties of the bookings.                                             *)
(***************************************************************************)
\* The orders that book the slot on the date: those that reference the slot,
\* are to be delivered that day and are not cancelled.
Booked(slotId, date) ==
    {o \in orders : /\ o.deliverySlotId = slotId
                    /\ o.deliveryDate = date
                    /\ o.status \in {"PENDING", "CONFIRMED", "DELIVERED"}}

\* C2: for every slot and date getSlotBookingsForDate is the number of orders
\* that reference the slot, have their deliveryDate on the date and are not
\* CANCELLED; and a step that cancels a counted order lowers the count for its
\* slot and date by exactly one.
C2_BookingsCountNonCancelled ==
    /\ [](\A s \in SlotIds, d \in Dates :
             getSlotBookingsForDate(s, d) = Cardinality(Booked(s, d)))
    /\ [][\A o \in orders :
             (/\ o.status # "CANCELLED"
              /\ \E c \in orders' : c.id = o.id /\ c.status = "CANCELLED")
             => getSlotBookingsForDate(o.deliverySlotId, o.deliveryDate)'
                = getSlotBookingsForDate(o.deliverySlotId, o.deliveryDate) - 1]_vars

\* C2 witness: an order was cancelled while another order of the same slot and
\* date stays counted.
C2_Witness ==
    \E c \in orders, o \in orders :
        /\ c.status = "CANCELLED" /\ o.status = "CONFIRMED"
        /\ c.deliverySlotId = o.deliverySlotId /\ c.deliveryDate = o.deliveryDate
        /\ getSlotBookingsForDate(o.deliverySlotId, o.deliveryDate) = 1
        /\ resp.op \in {"orders/cancelled", "release-slot"}

\* C3 as stated: with the slots' capacities fixed, the number of non-cancelled
\* orders of a slot and delivery date never exceeds the slot's capacity, also
\* when orders/create webhooks are processed concurrently.
C3_BookingsWithinCapacity ==
    \A s \in slots, d \in Dates : Cardinality(Booked(s.id, d)) <= s.capacity

(***************************************************************************)
(* Properties of the rows' references and keys.                            *)
(***************************************************************************)
ReferencesHold ==
    /\ \A o \in orders : \E s \in slots : s.id = o.deliverySlotId
    /\ \A s \in slots : \E z \in zones : z.id = s.zoneId

\* C6: every order refers to an existing delivery slot and every delivery slot
\* to an existing delivery zone; no step removes a zone that has slots or a
\* slot that has orders.
C6_ReferentialIntegrity ==
    /\ []ReferencesHold
    /\ [][/\ \A z \in zones : (\E s \in slots : s.zoneId = z.id) => z \in zones'
          /\ \A s \in slots : (\E o \in orders : o.deliverySlotId = s.id)
                              => \E k \in slots' : k.id = s.id]_vars

\* C6 witness: the delete of a slot that only cancelled orders still refer to
\* was turned down by the database.
C6_Witness ==
    /\ resp = Response("timeSlots.delete", 500, "Foreign key constraint failed")
    /\ \E o \in orders : \E s \in slots : s.id = o.deliverySlotId

\* C7: no two delivery zones of a shop have the same name, and a
\* createDeliveryZone call with a name the shop already uses adds no zone.
C7_ZoneNamesUnique ==
    /\ [](\A a \in zones, b \in zones :
             (a.shopName = b.shopName /\ a.name = b.name) => a.id = b.id)
    /\ [][resp'.op = "deliveryZones.create" =>
          \A shop \in Shops, name \in ZoneNames :
             (/\ \E z \in zones : z.shopName = shop /\ z.name = Trim(name)
              /\ name # ""
              /\ deliveryZones_create(shop, name, 1))
             => zones' = zones]_vars

\* C7 witness: a create with a used name was turned down while two zones with
\* different names are stored.
C7_Witness ==
    /\ resp.op = "deliveryZones.create"
    /\ resp.error \in {"A delivery zone with this name already exists",
                       "Unique constraint failed"}
    /\ \E a \in zones, b \in zones : a.name # b.name

(***************************************************************************)
(* Properties of the blackout dates.                                       *)
(***************************************************************************)
\* The entry is the shop's and is the zone's own or shop-wide.
Covers(b, shop, zoneId) ==
    b.shopName = shop /\ (b.zoneId = zoneId \/ b.zoneId = NULL)

\* A blackout entry of that exact day covers the zone.
ExactDayBlackout(shop, date, zoneId) ==
    \E b \in blackouts : Covers(b, shop, zoneId) /\ b.date = date

\* A recurring blackout entry of the date's month and day covers the zone.
RecurringBlackout(shop, date, zoneId) ==
    \E b \in blackouts : /\ Covers(b, shop, zoneId) /\ b.isRecurring
                         /\ MonthDay(b.date) = MonthDay(date)

\* The orders a step inserts.
Inserted == {o \in orders' : ~\E old \in orders : old.id = o.id}

C5_RecurringBlocksEveryYear ==
    \A shop \in Shops, d \in Dates, z \in ZoneIds :
        RecurringBlackout(shop, d, z) => isDateBlackedOut(shop, d, z) = {TRUE}

\* C10 as stated: with the webhooks processed one at a time, handleOrderCreated
\* inserts an order (CONFIRMED, for the selected slot and date) only if the slot
\* exists, is active, the date is not blacked out for the slot's zone (by an
\* entry of that day or a recurring entry of its month and day) and the slot's
\* bookings for the date are below its capacity; an order without a delivery
\* selection inserts nothing.
C10_InsertOnlyWhenDeliverable ==
    [][/\ \A o \in Inserted :
             /\ o.status = "CONFIRMED"
             /\ \E s \in slots :
                   /\ s.id = o.deliverySlotId /\ s.isActive
                   /\ ~ExactDayBlackout(s.shopName, o.deliveryDate, s.zoneId)
                   /\ ~RecurringBlackout(s.shopName, o.deliveryDate, s.zoneId)
                   /\ Cardinality(Booked(s.id, o.deliveryDate)) < s.capacity
       /\ \A shop \in Shops, order \in OrderPayloads(SlotIds, OrderDates) :
             (~extractDeliverySelection(order).found /\ orderCreated_begin(1, shop, order))
             => (orders' = orders /\ hooks' = hooks)]_vars

(***************************************************************************)
(* Properties of the storefront API.                                       *)
(***************************************************************************)
ApiOps == {"zones", "estimate", "slots", "blackout-dates", "availability",
           "shop-settings", "reserve-slot", "release-slot", "invalid", "options"}

\* C8 as stated: whenever the body of a storefront API response carries an
\* error, the response status is a 4xx or 5xx code.
C8_ErrorsCarryErrorStatus ==
    (resp.op \in ApiOps /\ resp.error # "none") => resp.status >= 400

(***************************************************************************)
(* Properties of the webhooks.                                             *)
(***************************************************************************)
\* C11: when an orders/create webhook fails on business logic (its slot is not
\* found, is no longer active, or is not available on the requested date),
\* handleOrderCreated returns success = true (the route answers 200), inserts no
\* order and leaves every stored row unchanged.
C11_BusinessFailuresAcknowledged ==
    [][(resp'.op = "orders/create" /\ hooks' = hooks) =>
       \A p \in Procs, shop \in Shops, order \in MetafieldPayloads :
          LET deliverySelection == extractDeliverySelection(order)
          IN  (/\ deliverySelection.found
               /\ "none" \notin orderCreated_checks(deliverySelection.slotId,
                                                    deliverySelection.deliveryDate)
               /\ orderCreated_begin(p, shop, order))
              => /\ resp'.success /\ resp'.status = 200
                 /\ resp'.error \in BusinessErrors
                 /\ dbVars' = dbVars /\ fxVars' = fxVars]_vars

\* C11 witness: a webhook for an existing slot was acknowledged with a business
\* error while an order is stored.
C11_Witness ==
    /\ resp.op = "orders/create" /\ resp.status = 200 /\ resp.success
    /\ resp.error \in {"Selected delivery slot is no longer active",
                       "Selected delivery slot is not available for the requested date"}
    /\ orders # {}

\* C12: at most one order record exists per Shopify order id; the insert of an
\* orders/create webhook for an order already recorded adds no record and
\* leaves the booking count of every slot and date as it was.
C12_OneRecordPerShopifyOrder ==
    /\ [](\A a \in orders, b \in orders :
             a.shopifyOrderId = b.shopifyOrderId => a = b)
    /\ [][\A p \in Procs :
             (/\ hooks[p].pc = "insert"
              /\ \E o \in orders : o.shopifyOrderId = hooks[p].shopifyOrderId
              /\ orderCreated_insert(p))
             => /\ orders' = orders
                /\ \A s \in SlotIds, d \in Dates :
                      getSlotBookingsForDate(s, d)' = getSlotBookingsForDate(s, d)]_vars

\* C12 witness: the insert of a redelivered orders/create webhook was refused
\* by the unique index while its order is stored.
C12_Witness ==
    /\ resp.op = "orders/create"
    /\ resp.error = "Unique constraint failed"
    /\ orders # {}

\* C13 as stated: for each order, however the orders/cancelled webhook is
\* delivered (again and again, or to two workers at once), the cancellation
\* email is sent at most once.
C13_CancellationEmailAtMostOnce ==
    \A id \in ShopifyOrderIds : emails[id].cancellation <= 1

\* C14: once an order's status is CANCELLED no step (webhook of any topic,
\* reserve-slot, release-slot, slot toggle) gives it another status, and it is
\* not among the bookings of its slot and date.
C14_CancelledIsTerminal ==
    /\ [](\A o \in orders : o.status = "CANCELLED"
                            => o \notin Booked(o.deliverySlotId, o.deliveryDate))
    /\ [][\A o \in orders :
             o.status = "CANCELLED"
             => \E k \in orders' : k.id = o.id /\ k.status = "CANCELLED"]_vars

\* C14 witness: the one stored order was cancelled by a webhook and then named
\* by a release-slot call that went through.
C14_Witness ==
    /\ resp = Response("release-slot", 200, "none")
    /\ Cardinality(orders) = 1
    /\ \A o \in orders : o.status = "CANCELLED"
                         /\ emails[o.shopifyOrderId].cancellation = 1

\* C15: the Shopify order update and the confirmation email happen only for an
\* order whose record is committed, and whatever they end with (no access token,
\* HTTP or GraphQL error, mail error) the step leaves the orders as they are and
\* the result is success = true.
C15_SideEffectsAfterCommit ==
    /\ [](\A id \in ShopifyOrderIds :
             (emails[id].confirmation # "none" \/ shopifyOrders[id] # "untouched")
             => \E o \in orders : o.shopifyOrderId = id)
    /\ [][\A p \in Procs, outcome \in Outcomes :
             (hooks[p].pc = "notify" /\ orderCreated_notify(p, outcome))
             => /\ \E o \in orders : o.shopifyOrderId = hooks[p].shopifyOrderId
                /\ orders' = orders
                /\ resp'.success /\ resp'.status = 200]_vars

\* C15 witness: an orders/create webhook ended with success while the Shopify
\* update and the email of its stored, confirmed order both failed.
C15_Witness ==
    /\ resp = WebhookResponse("orders/create", TRUE, "none")
    /\ \E o \in orders :
          /\ o.status = "CONFIRMED"
          /\ shopifyOrders[o.shopifyOrderId] = "failed"
          /\ emails[o.shopifyOrderId].confirmation = "failed"

\* processWebhook was called for the last webhook: its response has the
\* result's success flag.
Processed == resp.op \in Topics /\ resp.status # 401

\* C16: without a session the webhook route answers 401 and changes no stored
\* state; with a session it answers 500 exactly when processWebhook reports
\* success = false and 200 otherwise; a topic other than orders/create and
\* orders/cancelled is acknowledged with success = true and changes no stored
\* state.
C16_WebhookRouteStatus ==
    /\ [](/\ resp.op \in Topics => resp.status \in {200, 401, 500}
          /\ Processed => /\ resp.status = 500 <=> ~resp.success
                          /\ resp.status = 200 <=> resp.success)
    /\ [][/\ \A topic \in Topics :
                webhook_noSession(topic)
                => /\ resp'.status = 401
                   /\ dbVars' = dbVars /\ fxVars' = fxVars /\ hooks' = hooks
          /\ \A topic \in Topics \ {"orders/create", "orders/cancelled"} :
                processWebhook_default(topic)
                => /\ resp'.success /\ resp'.status = 200
                   /\ dbVars' = dbVars /\ fxVars' = fxVars /\ hooks' = hooks]_vars

\* C16 witness: the route answered 500 for an orders/create webhook whose
\* insert the database refused.
C16_Witness ==
    /\ resp.op = "orders/create" /\ resp.status = 500
    /\ resp.error = "Unique constraint failed"

\* C17: a reserve-slot call changes no stored row, so the bookings of every slot
\* and date and what isSlotAvailableForDate can answer stay as they were; for a
\* request with a slot and a date it answers 409 when isSlotAvailableForDate is
\* false and 200 when it is true.
C17_ReserveSlotHoldsNothing ==
    [][resp'.op = "reserve-slot" =>
       /\ (\E r \in ReserveRequests : ReserveSlot_action(r[1], r[2]))
          => /\ dbVars' = dbVars /\ fxVars' = fxVars
             /\ \A k \in SlotIds, e \in Dates :
                   /\ getSlotBookingsForDate(k, e)' = getSlotBookingsForDate(k, e)
                   /\ isSlotAvailableForDate(k, e)' = isSlotAvailableForDate(k, e)
       /\ \A r \in ReserveRequests :
             (r[1] # "" /\ r[2].kind # "missing" /\ ReserveSlot_action(r[1], r[2]))
             => /\ resp'.status \in {200, 409}
                /\ resp'.status = 409 => FALSE \in isSlotAvailableForDate(r[1], r[2].date)
                /\ resp'.status = 200 => TRUE \in isSlotAvailableForDate(r[1], r[2].date)]_vars

\* C17 witness: reserve-slot answered 200 for the active slot while no order and
\* no blackout date is stored (the slot is as free as before the call).
C17_Witness ==
    /\ resp = Response("reserve-slot", 200, "none")
    /\ orders = {} /\ blackouts = {}
    /\ \A s \in slots : s.isActive /\ s.currentOrders = 0

=============================================================================
